---- MODULE Spec2Model ----
(***************************************************************************)
(* Model of src/types/activity.rs: the Activity value, its nested value    *)
(* types (Timestamps, Party, Assets, Secrets, Button, ActivityType), the   *)
(* fluent builders, and the structure the derived Serialize impls render.  *)
(*                                                                         *)
(* An Option<T> is a sequence of length 0 (None) or 1 (Some(x)).           *)
(* A rendered value is a tagged record; a rendered struct is the ordered   *)
(* list of <<key, value>> entries the derived impl emits.                  *)
(***************************************************************************)
EXTENDS Integers, Sequences, FiniteSets, TLC

VARIABLES activity, nested

vars == <<activity, nested>>

(* ------------------------------ bounds --------------------------------- *)

\* Longest Vec<Button> a caller passes to Activity::buttons.
MaxButtons == 3

\* String arguments of the callers.
Strings == {"a", "b"}

\* Integer arguments of the callers (i64 timestamps, i32 party sizes).
Ints == {-1, 3, 10}

(* ------------------------------ Option --------------------------------- *)

None == <<>>

Some(x) == <<x>>

is_none(o) == o = None

is_some(o) == ~is_none(o)

unwrap(o) == o[1]

(* -------------------------- rendered values ---------------------------- *)

JNull == [t |-> "null"]

JStr(s) == [t |-> "str", v |-> s]

JInt(i) == [t |-> "int", v |-> i]

JArr(xs) == [t |-> "arr", v |-> xs]

JObj(entries) == [t |-> "obj", v |-> entries]

\* Keys of a rendered struct.
Keys(j) == {j.v[i][1] : i \in 1..Len(j.v)}

HasKey(j, k) == k \in Keys(j)

\* Value rendered under key k.
Get(j, k) == j.v[CHOOSE i \in 1..Len(j.v) : j.v[i][1] = k][2]

\* No key is rendered twice.
UniqueKeys(j) == Cardinality(Keys(j)) = Len(j.v)

(* ---------------------------- ActivityType ----------------------------- *)

ActivityType == {"Playing", "Listening", "Watching", "Competing"}

\* A plausible slip: the position of the variant instead of its discriminant.
ActivityType_repr_index(t) ==
    CASE t = "Playing" -> 0
      [] t = "Listening" -> 1
      [] t = "Watching" -> 2
      [] t = "Competing" -> 3

\* #[repr(u8)] discriminants.
ActivityType_repr(t) ==
    CASE t = "Playing" -> 0
      [] t = "Listening" -> 2
      [] t = "Watching" -> 3
      [] t = "Competing" -> 5

\* Serialize_repr: the discriminant as an integer.
Serialize_ActivityType(t) == JInt(ActivityType_repr(t))

(* ------------------------------- Button -------------------------------- *)

Button_new(label, url) == [label |-> label, url |-> url]

\* A plausible slip: the two fields rendered under each other's key.
Serialize_Button_swapped(b) ==
    JObj(<< <<"label", JStr(b.url)>>, <<"url", JStr(b.label)>> >>)

\* derive(Serialize) on Button: both fields, in declaration order.
Serialize_Button(b) ==
    JObj(<< <<"label", JStr(b.label)>>, <<"url", JStr(b.url)>> >>)

\* Vec<Button> renders as the list of its elements, in order.
Serialize_Vec_Button(bs) == JArr([i \in 1..Len(bs) |-> Serialize_Button(bs[i])])

(* ------------------------ struct serialization ------------------------- *)

\* Option<T> renders None as null and Some(x) as x.
Serialize_Option_String(o) == IF is_none(o) THEN JNull ELSE JStr(unwrap(o))

Serialize_Option_Int(o) == IF is_none(o) THEN JNull ELSE JInt(unwrap(o))

\* (i32, i32) renders as a two-element list, first component first.
Serialize_Option_Pair(o) ==
    IF is_none(o) THEN JNull
    ELSE JArr(<<JInt(unwrap(o)[1]), JInt(unwrap(o)[2])>>)

\* Candidate entries are <<key, field, rendered field>>.
RECURSIVE EmitFields(_)
EmitFields(fields) ==
    IF fields = <<>> THEN <<>>
    ELSE <<<<fields[1][1], fields[1][3]>>>> \o EmitFields(Tail(fields))

\* A plausible slip: the attribute missing, every field emitted (None as null).
skip_serializing_none_missing(fields) == JObj(EmitFields(fields))

\* #[serde_with::skip_serializing_none]: an Option field that is None is
\* not emitted; the others are emitted in declaration order.
skip_serializing_none(fields) ==
    JObj(EmitFields(SelectSeq(fields, LAMBDA e : is_some(e[2]))))

(* ----------------------------- Timestamps ------------------------------ *)

Timestamps_new == [start |-> None, end |-> None]

Timestamps_start(self, start) == [self EXCEPT !.start = Some(start)]

Timestamps_end(self, end) == [self EXCEPT !.end = Some(end)]

Serialize_Timestamps(self) ==
    skip_serializing_none(<<
        <<"start", self.start, Serialize_Option_Int(self.start)>>,
        <<"end", self.end, Serialize_Option_Int(self.end)>> >>)

(* -------------------------------- Party -------------------------------- *)

Party_new == [id |-> None, size |-> None]

Party_id(self, id) == [self EXCEPT !.id = Some(id)]

\* A plausible slip: the two components stored in the other order.
Party_size_swapped(self, current_size, max_size) ==
    [self EXCEPT !.size = Some(<<max_size, current_size>>)]

Party_size(self, current_size, max_size) ==
    [self EXCEPT !.size = Some(<<current_size, max_size>>)]

Serialize_Party(self) ==
    skip_serializing_none(<<
        <<"id", self.id, Serialize_Option_String(self.id)>>,
        <<"size", self.size, Serialize_Option_Pair(self.size)>> >>)

(* ------------------------------- Assets -------------------------------- *)

Assets_new ==
    [large_image |-> None, large_text |-> None,
     small_image |-> None, small_text |-> None]

Assets_large_image(self, large_image) ==
    [self EXCEPT !.large_image = Some(large_image)]

Assets_large_text(self, large_text) ==
    [self EXCEPT !.large_text = Some(large_text)]

Assets_small_image(self, small_image) ==
    [self EXCEPT !.small_image = Some(small_image)]

Assets_small_text(self, small_text) ==
    [self EXCEPT !.small_text = Some(small_text)]

Serialize_Assets(self) ==
    skip_serializing_none(<<
        <<"large_image", self.large_image, Serialize_Option_String(self.large_image)>>,
        <<"large_text", self.large_text, Serialize_Option_String(self.large_text)>>,
        <<"small_image", self.small_image, Serialize_Option_String(self.small_image)>>,
        <<"small_text", self.small_text, Serialize_Option_String(self.small_text)>> >>)

(* ------------------------------- Secrets ------------------------------- *)

\* The field r#match is the raw identifier `match`.
Secrets_new == [join |-> None, spectate |-> None, match |-> None]

Secrets_join(self, join) == [self EXCEPT !.join = Some(join)]

Secrets_spectate(self, spectate) == [self EXCEPT !.spectate = Some(spectate)]

Secrets_match(self, match) == [self EXCEPT !.match = Some(match)]

Serialize_Secrets(self) ==
    skip_serializing_none(<<
        <<"join", self.join, Serialize_Option_String(self.join)>>,
        <<"spectate", self.spectate, Serialize_Option_String(self.spectate)>>,
        <<"match", self.match, Serialize_Option_String(self.match)>> >>)

(* ------------------------------ Activity ------------------------------- *)

Activity_new ==
    [state |-> None, details |-> None, timestamps |-> None, party |-> None,
     assets |-> None, secrets |-> None, buttons |-> None,
     activity_type |-> None]

Activity_state(self, state) == [self EXCEPT !.state = Some(state)]

\* A plausible slip: the setter also clears its neighbour.
Activity_details_clobber(self, details) ==
    [self EXCEPT !.details = Some(details), !.state = None]

Activity_details(self, details) == [self EXCEPT !.details = Some(details)]

Activity_timestamps(self, timestamps) ==
    [self EXCEPT !.timestamps = Some(timestamps)]

Activity_party(self, party) == [self EXCEPT !.party = Some(party)]

Activity_assets(self, assets) == [self EXCEPT !.assets = Some(assets)]

Activity_secrets(self, secrets) == [self EXCEPT !.secrets = Some(secrets)]

\* A plausible slip: no early return, an empty Vec is stored.
Activity_buttons_store_empty(self, buttons) ==
    [self EXCEPT !.buttons = Some(buttons)]

\* A plausible slip: an empty Vec resets the field.
Activity_buttons_reset(self, buttons) ==
    IF buttons = <<>> THEN [self EXCEPT !.buttons = None]
    ELSE [self EXCEPT !.buttons = Some(buttons)]

\* A plausible slip: the documented maximum enforced by truncation.
Activity_buttons_truncate(self, buttons) ==
    IF buttons = <<>> THEN self
    ELSE [self EXCEPT !.buttons =
            Some(SubSeq(buttons, 1, IF Len(buttons) < 2 THEN Len(buttons) ELSE 2))]

\* An empty Vec returns self as it is; any other Vec is stored.
Activity_buttons(self, buttons) ==
    IF buttons = <<>> THEN self
    ELSE [self EXCEPT !.buttons = Some(buttons)]

Activity_activity_type(self, activity_type) ==
    [self EXCEPT !.activity_type = Some(activity_type)]

\* A plausible slip: the rename attribute missing.
activity_type_key_unrenamed == "activity_type"

\* #[serde(rename = "type")]
activity_type_key == "type"

Serialize_Activity(self) ==
    skip_serializing_none(<<
        <<"state", self.state, Serialize_Option_String(self.state)>>,
        <<"details", self.details, Serialize_Option_String(self.details)>>,
        <<"timestamps", self.timestamps,
          IF is_none(self.timestamps) THEN JNull
          ELSE Serialize_Timestamps(unwrap(self.timestamps))>>,
        <<"party", self.party,
          IF is_none(self.party) THEN JNull
          ELSE Serialize_Party(unwrap(self.party))>>,
        <<"assets", self.assets,
          IF is_none(self.assets) THEN JNull
          ELSE Serialize_Assets(unwrap(self.assets))>>,
        <<"secrets", self.secrets,
          IF is_none(self.secrets) THEN JNull
          ELSE Serialize_Secrets(unwrap(self.secrets))>>,
        <<"buttons", self.buttons,
          IF is_none(self.buttons) THEN JNull
          ELSE Serialize_Vec_Button(unwrap(self.buttons))>>,
        <<activity_type_key, self.activity_type,
          IF is_none(self.activity_type) THEN JNull
          ELSE Serialize_ActivityType(unwrap(self.activity_type))>> >>)

(* --------------------------- caller arguments -------------------------- *)

ButtonVals == {Button_new("Play", "https://p"), Button_new("Site", "https://s")}

ButtonsArgs == UNION {[1..n -> ButtonVals] : n \in 0..MaxButtons}

\* Nested values a caller passes to an Activity: a fresh one and one with
\* some sub-fields set and some not.
TimestampsArgs ==
    {Timestamps_new,
     Timestamps_start(Timestamps_new, 3)}

PartyArgs ==
    {Party_new,
     Party_size(Party_new, 3, 10)}

AssetsArgs ==
    {Assets_new,
     Assets_small_text(Assets_large_image(Assets_new, "a"), "b")}

SecretsArgs ==
    {Secrets_new,
     Secrets_match(Secrets_join(Secrets_new, "a"), "b")}

(* ------------------- the builder chain of an Activity ------------------ *)

\* No nested value is under construction.
NoChain == [type |-> "none"]

Chain(type, value) == [type |-> type, value |-> value]

Init ==
    /\ activity = Activity_new
    /\ nested = NoChain

state ==
    /\ \E s \in Strings : activity' = Activity_state(activity, s)
    /\ UNCHANGED nested

details ==
    /\ \E s \in Strings : activity' = Activity_details(activity, s)
    /\ UNCHANGED nested

timestamps ==
    /\ \E t \in TimestampsArgs : activity' = Activity_timestamps(activity, t)
    /\ UNCHANGED nested

party ==
    /\ \E p \in PartyArgs : activity' = Activity_party(activity, p)
    /\ UNCHANGED nested

assets ==
    /\ \E a \in AssetsArgs : activity' = Activity_assets(activity, a)
    /\ UNCHANGED nested

secrets ==
    /\ \E s \in SecretsArgs : activity' = Activity_secrets(activity, s)
    /\ UNCHANGED nested

buttons ==
    /\ \E bs \in ButtonsArgs : activity' = Activity_buttons(activity, bs)
    /\ UNCHANGED nested

activity_type ==
    /\ \E t \in ActivityType : activity' = Activity_activity_type(activity, t)
    /\ UNCHANGED nested

Next ==
    \/ state
    \/ details
    \/ timestamps
    \/ party
    \/ assets
    \/ secrets
    \/ buttons
    \/ activity_type

Spec == Init /\ [][Next]_vars

(* ---------- the builder chain of a nested value, then its use ---------- *)

NewTimestamps ==
    /\ nested' = Chain("Timestamps", Timestamps_new)
    /\ UNCHANGED activity

NewParty ==
    /\ nested' = Chain("Party", Party_new)
    /\ UNCHANGED activity

NewAssets ==
    /\ nested' = Chain("Assets", Assets_new)
    /\ UNCHANGED activity

NewSecrets ==
    /\ nested' = Chain("Secrets", Secrets_new)
    /\ UNCHANGED activity

start ==
    /\ nested.type = "Timestamps"
    /\ \E i \in Ints : nested' = Chain("Timestamps", Timestamps_start(nested.value, i))
    /\ UNCHANGED activity

end ==
    /\ nested.type = "Timestamps"
    /\ \E i \in Ints : nested' = Chain("Timestamps", Timestamps_end(nested.value, i))
    /\ UNCHANGED activity

id ==
    /\ nested.type = "Party"
    /\ \E s \in Strings : nested' = Chain("Party", Party_id(nested.value, s))
    /\ UNCHANGED activity

size ==
    /\ nested.type = "Party"
    /\ \E c \in Ints, m \in Ints :
          nested' = Chain("Party", Party_size(nested.value, c, m))
    /\ UNCHANGED activity

large_image ==
    /\ nested.type = "Assets"
    /\ \E s \in Strings : nested' = Chain("Assets", Assets_large_image(nested.value, s))
    /\ UNCHANGED activity

large_text ==
    /\ nested.type = "Assets"
    /\ \E s \in Strings : nested' = Chain("Assets", Assets_large_text(nested.value, s))
    /\ UNCHANGED activity

small_image ==
    /\ nested.type = "Assets"
    /\ \E s \in Strings : nested' = Chain("Assets", Assets_small_image(nested.value, s))
    /\ UNCHANGED activity

small_text ==
    /\ nested.type = "Assets"
    /\ \E s \in Strings : nested' = Chain("Assets", Assets_small_text(nested.value, s))
    /\ UNCHANGED activity

join ==
    /\ nested.type = "Secrets"
    /\ \E s \in Strings : nested' = Chain("Secrets", Secrets_join(nested.value, s))
    /\ UNCHANGED activity

spectate ==
    /\ nested.type = "Secrets"
    /\ \E s \in Strings : nested' = Chain("Secrets", Secrets_spectate(nested.value, s))
    /\ UNCHANGED activity

match ==
    /\ nested.type = "Secrets"
    /\ \E s \in Strings : nested' = Chain("Secrets", Secrets_match(nested.value, s))
    /\ UNCHANGED activity

\* Activity::new().timestamps(t): the finished value moves into the Activity.
UseTimestamps ==
    /\ nested.type = "Timestamps"
    /\ activity' = Activity_timestamps(Activity_new, nested.value)
    /\ nested' = NoChain

UseParty ==
    /\ nested.type = "Party"
    /\ activity' = Activity_party(Activity_new, nested.value)
    /\ nested' = NoChain

UseAssets ==
    /\ nested.type = "Assets"
    /\ activity' = Activity_assets(Activity_new, nested.value)
    /\ nested' = NoChain

UseSecrets ==
    /\ nested.type = "Secrets"
    /\ activity' = Activity_secrets(Activity_new, nested.value)
    /\ nested' = NoChain

NextNested ==
    \/ NewTimestamps
    \/ NewParty
    \/ NewAssets
    \/ NewSecrets
    \/ start
    \/ end
    \/ id
    \/ size
    \/ large_image
    \/ large_text
    \/ small_image
    \/ small_text
    \/ join
    \/ spectate
    \/ match
    \/ UseTimestamps
    \/ UseParty
    \/ UseAssets
    \/ UseSecrets

SpecNested == Init /\ [][NextNested]_vars

(* ------------------------------ properties ----------------------------- *)

ActivityFields ==
    {"state", "details", "timestamps", "party", "assets", "secrets",
     "buttons", "activity_type"}

Present(self, fields) == {f \in fields : is_some(self[f])}

Rendered == Serialize_Activity(activity)

NoNullEntry(j) == \A i \in 1..Len(j.v) : j.v[i][2].t # "null"

C2_ButtonsAbsentOrNonEmpty ==
    /\ is_some(activity.buttons) => Len(unwrap(activity.buttons)) >= 1
    /\ \A bs \in ButtonsArgs :
          Activity_buttons(activity, bs).buttons # Some(<<>>)
    /\ HasKey(Rendered, "buttons") <=> is_some(activity.buttons)
    /\ HasKey(Rendered, "buttons") =>
          /\ Get(Rendered, "buttons").t = "arr"
          /\ Len(Get(Rendered, "buttons").v) >= 1
          /\ Len(Get(Rendered, "buttons").v) = Len(unwrap(activity.buttons))

\* Buttons are stored and rendered, and an empty call on them stores no
\* empty sequence.
C2_Witness ==
    /\ is_some(activity.buttons)
    /\ Len(Get(Rendered, "buttons").v) = 1
    /\ is_some(activity.state)

\* C3 as stated: the buttons field, if present, holds at most 2 elements.
C3_Original ==
    is_some(activity.buttons) =>
        /\ Len(unwrap(activity.buttons)) <= 2
        /\ Len(Get(Rendered, "buttons").v) \in 1..2

\* C3 as amended: the buttons field, if present, holds at least 1 element,
\* and a call of buttons with a non-empty sequence stores all of its
\* elements, however many (no maximum is enforced); the rendered "buttons"
\* list has as many entries as the field, 1 or more.
C3_Amended ==
    /\ \A bs \in ButtonsArgs :
          bs # <<>> =>
              Len(unwrap(Activity_buttons(activity, bs).buttons)) = Len(bs)
    /\ is_some(activity.buttons) =>
          /\ Len(unwrap(activity.buttons)) >= 1
          /\ Len(Get(Rendered, "buttons").v) = Len(unwrap(activity.buttons))

\* Three buttons are stored and rendered.
C3_Witness ==
    /\ is_some(activity.buttons)
    /\ Len(unwrap(activity.buttons)) = 3
    /\ Len(Get(Rendered, "buttons").v) = 3

\* The effect of one setter call: field f holds the argument, the rest is as before.
SetsOnly(before, after, f, arg) ==
    /\ after[f] = Some(arg)
    /\ \A g \in ActivityFields \ {f} : after[g] = before[g]

\* C4: each setter (buttons with a non-empty sequence included) returns a
\* value in which exactly that field is set to the given value and every
\* other field is as before the call.
C4_SetterFrame ==
    /\ \A s \in Strings :
          /\ SetsOnly(activity, Activity_state(activity, s), "state", s)
          /\ SetsOnly(activity, Activity_details(activity, s), "details", s)
    /\ \A t \in TimestampsArgs :
          SetsOnly(activity, Activity_timestamps(activity, t), "timestamps", t)
    /\ \A p \in PartyArgs :
          SetsOnly(activity, Activity_party(activity, p), "party", p)
    /\ \A a \in AssetsArgs :
          SetsOnly(activity, Activity_assets(activity, a), "assets", a)
    /\ \A s \in SecretsArgs :
          SetsOnly(activity, Activity_secrets(activity, s), "secrets", s)
    /\ \A t \in ActivityType :
          SetsOnly(activity, Activity_activity_type(activity, t), "activity_type", t)
    /\ \A bs \in ButtonsArgs \ {<<>>} :
          SetsOnly(activity, Activity_buttons(activity, bs), "buttons", bs)

\* Every field has been set, each by its own call, and none was lost.
C4_Witness ==
    /\ Present(activity, ActivityFields) = ActivityFields
    /\ activity.state = Some("a")
    /\ activity.details = Some("b")
    /\ activity.activity_type = Some("Watching")

\* The key a field is expected under.
ExpectedKey(f) == IF f = "activity_type" THEN "type" ELSE f

\* C5: the keys of the rendered structure are exactly the present fields,
\* activity_type under "type" and the others under their own name; no entry
\* is a null marker; a fresh Activity renders with zero keys.
C5_RenderedKeys ==
    /\ Keys(Rendered) = {ExpectedKey(f) : f \in Present(activity, ActivityFields)}
    /\ UniqueKeys(Rendered)
    /\ NoNullEntry(Rendered)
    /\ ~HasKey(Rendered, "activity_type")
    /\ activity = Activity_new => Len(Rendered.v) = 0
    /\ Len(Serialize_Activity(Activity_new).v) = 0

\* The type is set and rendered while other fields are unset and left out.
C5_Witness ==
    /\ is_some(activity.activity_type)
    /\ is_some(activity.party)
    /\ is_none(activity.state)
    /\ Keys(Rendered) = {"type", "party"}

\* C6: a set ActivityType renders under "type" as its integer code, Playing 0,
\* Listening 2, Watching 3, Competing 5, never 1, 4 or any other value.
C6_TypeCode ==
    is_some(activity.activity_type) =>
        LET t == unwrap(activity.activity_type)
            j == Get(Rendered, "type")
        IN  /\ j.t = "int"
            /\ j.v \in {0, 2, 3, 5}
            /\ j.v \notin {1, 4}
            /\ t = "Playing" => j.v = 0
            /\ t = "Listening" => j.v = 2
            /\ t = "Watching" => j.v = 3
            /\ t = "Competing" => j.v = 5

\* Competing is set and rendered as 5.
C6_Witness ==
    /\ activity.activity_type = Some("Competing")
    /\ Get(Rendered, "type").v = 5

\* A rendered button carries exactly the label and the url of b.
RendersButton(j, b) ==
    /\ j.t = "obj"
    /\ Keys(j) = {"label", "url"}
    /\ Len(j.v) = 2
    /\ Get(j, "label").t = "str"
    /\ Get(j, "label").v = b.label
    /\ Get(j, "url").t = "str"
    /\ Get(j, "url").v = b.url

\* C7: buttons with a non-empty sequence stores exactly that sequence in
\* place of any earlier one, and the rendered "buttons" list has the same
\* length and order, each element with its label and its url.
C7_ButtonsVerbatim ==
    /\ \A bs \in ButtonsArgs \ {<<>>} :
          Activity_buttons(activity, bs).buttons = Some(bs)
    /\ is_some(activity.buttons) =>
          LET bs == unwrap(activity.buttons)
              j == Get(Rendered, "buttons")
          IN  /\ j.t = "arr"
              /\ Len(j.v) = Len(bs)
              /\ \A i \in 1..Len(bs) : RendersButton(j.v[i], bs[i])

\* Two different buttons are stored and rendered in the caller's order.
C7_Witness ==
    /\ is_some(activity.buttons)
    /\ unwrap(activity.buttons) =
          <<Button_new("Site", "https://s"), Button_new("Play", "https://p")>>
    /\ Get(Get(Rendered, "buttons").v[1], "label").v = "Site"
    /\ Get(Get(Rendered, "buttons").v[2], "url").v = "https://p"

NestedFields == {"timestamps", "party", "assets", "secrets"}

SubFields(f) ==
    CASE f = "timestamps" -> {"start", "end"}
      [] f = "party" -> {"id", "size"}
      [] f = "assets" -> {"large_image", "large_text", "small_image", "small_text"}
      [] f = "secrets" -> {"join", "spectate", "match"}

\* C8: a nested value set on an Activity renders under its own key as a
\* structure whose keys are exactly the sub-fields set on it; with no
\* sub-field set the key is still rendered, holding an empty structure.
C8_NestedRender ==
    \A f \in NestedFields :
        is_some(activity[f]) =>
            /\ HasKey(Rendered, f)
            /\ LET j == Get(Rendered, f) IN
                /\ j.t = "obj"
                /\ Keys(j) = Present(unwrap(activity[f]), SubFields(f))
                /\ UniqueKeys(j)
                /\ NoNullEntry(j)
                /\ Present(unwrap(activity[f]), SubFields(f)) = {} => j.v = <<>>

\* An Assets with no sub-field set renders as an empty structure under "assets".
C8_Witness ==
    /\ activity.assets = Some(Assets_new)
    /\ HasKey(Rendered, "assets")
    /\ Get(Rendered, "assets").v = <<>>

RendersPair(j, c, m) ==
    /\ j.t = "arr"
    /\ Len(j.v) = 2
    /\ j.v[1].t = "int"
    /\ j.v[1].v = c
    /\ j.v[2].t = "int"
    /\ j.v[2].v = m

\* C9: Party.size(c, m) stores <<c, m>>, current first, and renders as
\* [c, m]; a later id call leaves the pair alone and a later size call
\* stores the later pair, again current first.
C9_PartySize ==
    /\ nested.type = "Party" =>
          \A c \in Ints, m \in Ints :
              LET p == Party_size(nested.value, c, m) IN
              /\ p.size = Some(<<c, m>>)
              /\ p.id = nested.value.id
              /\ RendersPair(Get(Serialize_Party(p), "size"), c, m)
              /\ \A s \in Strings : Party_id(p, s).size = Some(<<c, m>>)
              /\ \A c2 \in Ints, m2 \in Ints :
                    Party_size(p, c2, m2).size = Some(<<c2, m2>>)
    /\ (nested.type = "Party" /\ is_some(nested.value.size)) =>
          RendersPair(Get(Serialize_Party(nested.value), "size"),
                      unwrap(nested.value.size)[1], unwrap(nested.value.size)[2])
    /\ (is_some(activity.party) /\ is_some(unwrap(activity.party).size)) =>
          RendersPair(Get(Get(Rendered, "party"), "size"),
                      unwrap(unwrap(activity.party).size)[1],
                      unwrap(unwrap(activity.party).size)[2])

\* Party::new().size(3, 10) was built, set on an Activity and rendered [3, 10].
C9_Witness ==
    /\ is_some(activity.party)
    /\ unwrap(activity.party).size = Some(<<3, 10>>)
    /\ RendersPair(Get(Get(Rendered, "party"), "size"), 3, 10)

\* No setter of a nested value of kind f makes a set sub-field of v unset,
\* and each stores its argument.
NestedSettersKeep(f, v) ==
    LET keeps(w) == Present(v, SubFields(f)) \subseteq Present(w, SubFields(f)) IN
    CASE f = "timestamps" ->
            \A i \in Ints :
                /\ keeps(Timestamps_start(v, i))
                /\ keeps(Timestamps_end(v, i))
                /\ Timestamps_start(v, i).start = Some(i)
                /\ Timestamps_end(v, i).end = Some(i)
      [] f = "party" ->
            /\ \A s \in Strings : keeps(Party_id(v, s)) /\ Party_id(v, s).id = Some(s)
            /\ \A c \in Ints, m \in Ints : keeps(Party_size(v, c, m))
      [] f = "assets" ->
            \A s \in Strings :
                /\ keeps(Assets_large_image(v, s))
                /\ keeps(Assets_large_text(v, s))
                /\ keeps(Assets_small_image(v, s))
                /\ keeps(Assets_small_text(v, s))
                /\ Assets_large_image(v, s).large_image = Some(s)
                /\ Assets_small_text(v, s).small_text = Some(s)
      [] f = "secrets" ->
            \A s \in Strings :
                /\ keeps(Secrets_join(v, s))
                /\ keeps(Secrets_spectate(v, s))
                /\ keeps(Secrets_match(v, s))
                /\ Secrets_join(v, s).join = Some(s)
                /\ Secrets_match(v, s).match = Some(s)

\* One step of the chain keeps every set field set, buttons([]) included
\* (a call that changes nothing is no step, so it is also applied here), and
\* the setters of a nested value the step stored keep its sub-fields set.
KeepsPresence ==
    /\ \A f \in ActivityFields : is_some(activity[f]) => is_some(activity'[f])
    /\ is_some(activity.buttons) =>
          is_some(Activity_buttons(activity, <<>>).buttons)
    /\ \A f \in NestedFields :
          activity'[f] # activity[f] =>
              NestedSettersKeep(f, unwrap(activity'[f]))
    /\ \A s \in Strings :
          activity' = Activity_state(activity, s) => activity'.state = Some(s)

====
